---- MODULE Spec2Model ----
(***************************************************************************)
(* NestJS OTP / e-mail authentication service.                             *)
(*                                                                         *)
(* State: the User table, the Otp table, the wall clock, the proof tokens   *)
(* callers hold, the response to the last request, and the register calls  *)
(* that are between their checks and their insert.                         *)
(* One action per HTTP handler (controller + the service calls it makes), plus AuthService.register called directly (the service is    *)
(* exported by AuthModule) and the passage of time.                        *)
(* Time is counted in seconds, as the JWT library and the OTP step do.     *)
(***************************************************************************)
EXTENDS Integers, FiniteSets, Sequences, TLC

VARIABLES users, otps, now, issued, res, pending

vars == <<users, otps, now, issued, res, pending>>

----------------------------------------------------------------------------
\* Bounds of the model

TickSeconds == 2400
MaxNow == 4800
MaxTokens == 3
MaxCalls == 2
EngineTick == 1800
MaxEngineNow == 28800

Emails == {"a@x.com", "b@x.com"}
\* the addresses OTP challenges are requested for
OtpEmails == {"a@x.com"}
Passwords == {"Secret1!", "NewPass1!"}
Secrets == {1, 2}
Salts == {1}

----------------------------------------------------------------------------
\* Program constants

OtpStep == 3600
OtpDigits == 6
OtpWindow == 3
HourSeconds == 3600
JwtExpiresIn == 3600
JWT_SECRET == "JWT_SECRET"

----------------------------------------------------------------------------
\* Values

NoEmail == "-"
NullDate == -1
NoCode == -1

NoHash == [pw |-> "-", salt |-> 0]

\* A JWT: the payload fields the handlers put in, iat/exp, and the key that signed it.
NoToken == [email |-> NoEmail, username |-> NoEmail, sub |-> 0, iat |-> -1, exp |-> -1, sig |-> "null"]
UndefinedToken == [email |-> NoEmail, username |-> NoEmail, sub |-> 0, iat |-> -1, exp |-> -1, sig |-> "undefined"]
ForgedToken == [email |-> "a@x.com", username |-> NoEmail, sub |-> 0, iat |-> 0, exp |-> 1000000, sig |-> "other-key"]

NoUser == [id |-> 0, email |-> NoEmail, password |-> NoHash, isVerified |-> FALSE,
           resetPasswordToken |-> NoToken, resetPasswordExpires |-> NullDate]

NoRes == [op |-> "none", status |-> 0, message |-> "", token |-> NoToken, user |-> NoUser]

----------------------------------------------------------------------------
\* bcrypt

\* bcrypt.hash(password, 10): salted, the salt is drawn per call
bcryptHash(pw, salt) == [pw |-> pw, salt |-> salt]

\* a compare that accepts every password
bcryptCompare_AcceptsAny(pw, hash) == TRUE

\* bcrypt.compare(pass, hash)
bcryptCompare(pw, hash) == hash.pw = pw

----------------------------------------------------------------------------
\* speakeasy TOTP

RECURSIVE Pow10(_)
Pow10(n) == IF n = 0 THEN 1 ELSE 10 * Pow10(n - 1)

\* codes are decimals of OtpDigits digits
OtpModulus == Pow10(OtpDigits)

\* the time-step counter of an instant
totpCounter(at) == at \div OtpStep

\* HOTP value of a secret at a counter: a fixed-width decimal of OtpDigits digits
hotp(secret, counter) == (secret * 7919 + counter * 104729) % OtpModulus

\* OtpService.getOtp
getOtp(secret, at) == hotp(secret, totpCounter(at))

\* a verify that looks at the current step and the steps after it only
verifyOtp_OneSided(secret, otp, at) ==
    \E d \in 0..OtpWindow : hotp(secret, totpCounter(at) + d) = otp

\* OtpService.verifyOtp: window 3 on either side of the current step
verifyOtp(secret, otp, at) ==
    \E d \in (0 - OtpWindow)..OtpWindow : hotp(secret, totpCounter(at) + d) = otp

----------------------------------------------------------------------------
\* JwtService

jwtSign(email, username, sub, at, expiresIn) ==
    [email |-> email, username |-> username, sub |-> sub,
     iat |-> at, exp |-> at + expiresIn, sig |-> JWT_SECRET]

\* a verify that checks the signature only
jwtVerify_IgnoreExpiry(token, at) == token.sig = JWT_SECRET

\* jwtService.verify: throws unless the signature is made with the module's
\* secret and the token has not reached its exp
jwtVerify(token, at) == token.sig = JWT_SECRET /\ ~(at >= token.exp)

----------------------------------------------------------------------------
\* Repositories

\* usersRepository.findOne({ where: { email } }): the rows that match
findUsersByEmail(email) == {u \in users : u.email = email}

\* otpRepository.findOne({ where: { email } }): the rows that match
findOtpsByEmail(email) == {o \in otps : o.email = email}

\* PrimaryGeneratedColumn: a fresh id
nextUserId == Cardinality(users) + 1
nextOtpId == Cardinality(otps) + 1

\* ValidationPipe({ whitelist: true }) over RegistrationDto: properties
\* without a validation decorator are stripped; the DTO declares email and
\* password only
whitelistRegistrationDto(body) ==
    [email |-> body.email, password |-> body.password, otpToken |-> UndefinedToken]

----------------------------------------------------------------------------
\* What a caller can present as a token: a proof token it holds (with the
\* handler that issued it), the token of the last response, or a token
\* signed with another key.

Held == {i.token : i \in issued}
TokenInputs == Held \cup ({res.token} \ {NoToken}) \cup {ForgedToken}

\* a code of the right width that no challenge of the model was issued
WrongCode == Pow10(OtpDigits) - 1

\* the OTP codes a caller can submit
AllCodes == {hotp(s, c) : s \in Secrets, c \in 0..(MaxNow \div OtpStep)} \cup {WrongCode}

\* a proof token is handed to the caller, who keeps it
Issue(token, by) == issued' = issued \cup {[token |-> token, by |-> by]}
CanIssue(token) == Cardinality(issued) < MaxTokens \/ token \in Held

----------------------------------------------------------------------------
Init ==
    /\ users = {}
    /\ otps = {}
    /\ now = 0
    /\ issued = {}
    /\ res = NoRes
    /\ pending = {}

\* the clock advances
Tick ==
    /\ now < MaxNow
    /\ now' = now + TickSeconds
    /\ UNCHANGED <<users, otps, issued, res, pending>>

----------------------------------------------------------------------------
\* Responses: the handler that answered, the HTTP status, the message, and
\* the token and user object of the body

Reply(op, status, message) ==
    [op |-> op, status |-> status, message |-> message, token |-> NoToken, user |-> NoUser]
ReplyToken(op, status, message, token) ==
    [op |-> op, status |-> status, message |-> message, token |-> token, user |-> NoUser]
ReplyUser(op, status, message, token, user) ==
    [op |-> op, status |-> status, message |-> message, token |-> token, user |-> user]

\* the row findOne returns: one of the matching rows, or none
NoOtp == [id |-> 0, email |-> NoEmail, token |-> NoCode, secret |-> 0, expires |-> NullDate]
FoundOtps(email) == IF findOtpsByEmail(email) = {} THEN {NoOtp} ELSE findOtpsByEmail(email)
FoundUsers(email) == IF findUsersByEmail(email) = {} THEN {NoUser} ELSE findUsersByEmail(email)

----------------------------------------------------------------------------
\* POST /auth/otp-request: AuthController.requestOtp, OtpService.createOtp,
\* OtpService.sendOtpEmail, EmailService.sendEmail

\* createOtp that leaves the stored secret of an existing challenge in place
createOtpSave_KeepSecret(email, secret, otpData) ==
    LET otp == getOtp(secret, now)
        expiryDate == now + HourSeconds
    IN  IF otpData \in otps
        THEN (otps \ {otpData}) \cup
               {[otpData EXCEPT !.token = otp, !.expires = expiryDate]}
        ELSE otps \cup {[id |-> nextOtpId, email |-> email, token |-> otp,
                         secret |-> secret, expires |-> expiryDate]}

\* createOtp that always inserts a new row
createOtpSave_AlwaysInsert(email, secret, otpData) ==
    LET otp == getOtp(secret, now)
        expiryDate == now + HourSeconds
    IN  otps \cup {[id |-> nextOtpId, email |-> email, token |-> otp,
                    secret |-> secret, expires |-> expiryDate]}

\* OtpService.createOtp up to and including otpRepository.save: the Otp table afterwards
createOtpSave(email, secret, otpData) ==
    LET otp == getOtp(secret, now)
        expiryDate == now + HourSeconds
    IN  IF otpData \in otps
        THEN (otps \ {otpData}) \cup
               {[otpData EXCEPT !.token = otp, !.secret = secret, !.expires = expiryDate]}
        ELSE otps \cup {[id |-> nextOtpId, email |-> email, token |-> otp,
                         secret |-> secret, expires |-> expiryDate]}

\* requestOtp that acknowledges whatever the mailer did
requestOtpReply_IgnoreMailer(mailOk) == Reply("otp-request", 201, "OTP sent successfully")

\* AuthController.requestOtp: the acknowledgement, or the mailer's error rethrown
requestOtpReply(mailOk) ==
    IF mailOk THEN Reply("otp-request", 201, "OTP sent successfully")
    ELSE Reply("otp-request", 400, "mail transport error")

requestOtp(email, secret, mailOk) ==
    /\ \E otpData \in FoundOtps(email) : otps' = createOtpSave(email, secret, otpData)
    /\ res' = requestOtpReply(mailOk)
    /\ UNCHANGED <<users, now, issued, pending>>

----------------------------------------------------------------------------
\* POST /auth/otp-verify: AuthController.verifyOtp, OtpService.verifyOtpForEmail

\* verifyOtpForEmail with the code checked before the expiry
verifyOtpForEmailOutcome_CodeFirst(otpInfo, otp) ==
    IF otpInfo = NoOtp THEN "OTP not found"
    ELSE IF ~verifyOtp(otpInfo.secret, otp, now) THEN "Invalid OTP"
    ELSE IF now > otpInfo.expires THEN "OTP has expired"
    ELSE "ok"

\* verifyOtpForEmail without the expiry check: the engine's window decides
verifyOtpForEmailOutcome_NoExpiry(otpInfo, otp) ==
    IF otpInfo = NoOtp THEN "OTP not found"
    ELSE IF ~verifyOtp(otpInfo.secret, otp, now) THEN "Invalid OTP"
    ELSE "ok"

\* the outcome of OtpService.verifyOtpForEmail on the row findOne returned
verifyOtpForEmailOutcome(otpInfo, otp) ==
    IF otpInfo = NoOtp THEN "OTP not found"
    ELSE IF now > otpInfo.expires THEN "OTP has expired"
    ELSE IF ~verifyOtp(otpInfo.secret, otp, now) THEN "Invalid OTP"
    ELSE "ok"

\* the token verifyOtpForEmail signs: payload { email }, expiresIn '1h'
otpProofToken(email) == jwtSign(email, NoEmail, 0, now, JwtExpiresIn)

\* the Otp table after verifyOtpForEmail
verifyOtpForEmailSave(otpInfo) == otps

\* a verifyOtp that creates the Identity when the code verifies
verifyOtpEndpoint_CreatesUser(email, otp) ==
    /\ \E otpInfo \in FoundOtps(email) :
         IF verifyOtpForEmailOutcome(otpInfo, otp) = "ok"
         THEN /\ CanIssue(otpProofToken(email))
              /\ Issue(otpProofToken(email), "otp-verify")
              /\ otps' = verifyOtpForEmailSave(otpInfo)
              /\ users' = IF findUsersByEmail(email) # {} THEN users
                          ELSE users \cup {[id |-> nextUserId, email |-> email,
                                            password |-> NoHash, isVerified |-> TRUE,
                                            resetPasswordToken |-> NoToken,
                                            resetPasswordExpires |-> NullDate]}
              /\ res' = ReplyToken("otp-verify", 201, "OTP verified successfully",
                                   otpProofToken(email))
         ELSE /\ res' = Reply("otp-verify", 400, verifyOtpForEmailOutcome(otpInfo, otp))
              /\ UNCHANGED <<issued, otps, users>>
    /\ UNCHANGED <<now, pending>>

verifyOtpEndpoint(email, otp) ==
    /\ \E otpInfo \in FoundOtps(email) :
         IF verifyOtpForEmailOutcome(otpInfo, otp) = "ok"
         THEN /\ CanIssue(otpProofToken(email))
              /\ Issue(otpProofToken(email), "otp-verify")
              /\ otps' = verifyOtpForEmailSave(otpInfo)
              /\ res' = ReplyToken("otp-verify", 201, "OTP verified successfully",
                                   otpProofToken(email))
         ELSE /\ res' = Reply("otp-verify", 400, verifyOtpForEmailOutcome(otpInfo, otp))
              /\ UNCHANGED <<issued, otps>>
    /\ UNCHANGED <<users, now, pending>>

----------------------------------------------------------------------------
\* AuthService.register, and POST /auth/register (AuthController.register)

\* the row usersRepository.create + save inserts: the columns the caller gave,
\* a generated id, the column defaults for the rest
newUserRow(email, hashedPassword) ==
    [id |-> nextUserId, email |-> email, password |-> hashedPassword, isVerified |-> FALSE,
     resetPasswordToken |-> NoToken, resetPasswordExpires |-> NullDate]

\* a session token whose subject is not taken from the user
sessionToken_FixedSubject(user) == jwtSign(NoEmail, user.email, 1, now, JwtExpiresIn)

\* the payload login and register sign: { username: user.email, sub: user.id }
sessionToken(user) == jwtSign(NoEmail, user.email, user.id, now, JwtExpiresIn)

\* register without the lookup of an existing user
registerOutcome_NoConflictCheck(dto) ==
    IF ~jwtVerify(dto.otpToken, now) THEN "Invalid or expired OTP token"
    ELSE "ok"

\* the outcome of AuthService.register on a DTO
registerOutcome(dto) ==
    IF findUsersByEmail(dto.email) # {} THEN "Email already exists"
    ELSE IF ~jwtVerify(dto.otpToken, now) THEN "Invalid or expired OTP token"
    ELSE "ok"

\* the object AuthService.register returns: { user: newUser, access_token }
registerResult(op, message, newUser) ==
    ReplyUser(op, 201, message, sessionToken(newUser), newUser)

\* a register that inserts the row before it verifies the otpToken
AuthService_register_CreateBeforeVerify(op, message, dto, salt) ==
    LET outcome == registerOutcome(dto)
        newUser == newUserRow(dto.email, bcryptHash(dto.password, salt))
    IN  IF outcome = "Email already exists"
        THEN /\ users' = users
             /\ res' = Reply(op, 409, outcome)
        ELSE /\ users' = users \cup {newUser}
             /\ res' = IF outcome = "ok" THEN registerResult(op, message, newUser)
                       ELSE Reply(op, 400, outcome)

AuthService_register(op, message, dto, salt) ==
    LET outcome == registerOutcome(dto)
        newUser == newUserRow(dto.email, bcryptHash(dto.password, salt))
    IN  IF outcome = "ok"
        THEN /\ users' = users \cup {newUser}
             /\ res' = registerResult(op, message, newUser)
        ELSE /\ users' = users
             /\ res' = Reply(op, IF outcome = "Email already exists" THEN 409 ELSE 400, outcome)

\* AuthService.register called with a DTO that carries the otpToken
registerService(email, password, otpToken, salt) ==
    /\ AuthService_register("AuthService.register", "",
          [email |-> email, password |-> password, otpToken |-> otpToken], salt)
    /\ UNCHANGED <<otps, now, issued, pending>>

\* POST /auth/register: the body goes through the ValidationPipe first
registerEndpoint(email, password, otpToken, salt) ==
    /\ AuthService_register("register", "Registration successful",
          whitelistRegistrationDto([email |-> email, password |-> password, otpToken |-> otpToken]),
          salt)
    /\ UNCHANGED <<otps, now, issued, pending>>

----------------------------------------------------------------------------
\* POST /auth/login: AuthController.login, AuthService.login, AuthService.validateUser

\* validateUser without the password comparison
validateUserOutcome_NoPasswordCheck(user, pass) ==
    IF user = NoUser THEN "Email not found" ELSE "ok"

\* the outcome of AuthService.validateUser on the row findOne returned
validateUserOutcome(user, pass) ==
    IF user = NoUser THEN "Email not found"
    ELSE IF ~bcryptCompare(pass, user.password) THEN "Incorrect password"
    ELSE "ok"

\* const { password, ...result } = user
stripPassword(user) == [user EXCEPT !.password = NoHash]

\* the object AuthService.login returns, under the controller's message
loginResult(user) ==
    ReplyUser("login", 201, "Login successful", sessionToken(stripPassword(user)),
              stripPassword(user))

login(email, password) ==
    /\ \E user \in FoundUsers(email) :
         res' = IF validateUserOutcome(user, password) = "ok"
                THEN loginResult(user)
                ELSE Reply("login",
                           IF validateUserOutcome(user, password) = "Email not found"
                           THEN 404 ELSE 400,
                           validateUserOutcome(user, password))
    /\ UNCHANGED <<users, otps, now, issued, pending>>

----------------------------------------------------------------------------
\* POST /users/forgot-password: UsersController.forgotPassword,
\* UsersService.setResetPasswordToken

\* the token forgotPassword signs: payload { email: user.email, sub: user.id }, expiresIn '1h'
resetToken(user) == jwtSign(user.email, NoEmail, user.id, now, JwtExpiresIn)

\* setResetPasswordToken that stores the token without its expiry
setResetPasswordToken_TokenOnly(user, token, expires) ==
    IF user = NoUser THEN users
    ELSE (users \ {user}) \cup {[user EXCEPT !.resetPasswordToken = token]}

\* setResetPasswordToken that also blanks the password of the row
setResetPasswordToken_BlanksPassword(user, token, expires) ==
    IF user = NoUser THEN users
    ELSE (users \ {user}) \cup
           {[user EXCEPT !.resetPasswordToken = token, !.resetPasswordExpires = expires,
                         !.password = NoHash]}

\* UsersService.setResetPasswordToken: the User table afterwards
setResetPasswordToken(user, token, expires) ==
    IF user = NoUser THEN users
    ELSE (users \ {user}) \cup
           {[user EXCEPT !.resetPasswordToken = token, !.resetPasswordExpires = expires]}

\* the body forgotPassword answers with
forgotPasswordReply(user) ==
    IF user # NoUser
    THEN ReplyToken("forgot-password", 201, "", resetToken(user))
    ELSE Reply("forgot-password", 201, "If email exists, reset token has been sent")

forgotPassword(email) ==
    /\ \E user \in FoundUsers(email) :
         /\ res' = forgotPasswordReply(user)
         /\ IF user # NoUser
            THEN /\ CanIssue(resetToken(user))
                 /\ Issue(resetToken(user), "forgot-password")
                 /\ \E again \in FoundUsers(email) :
                      users' = setResetPasswordToken(again, resetToken(user), now + HourSeconds)
            ELSE UNCHANGED <<users, issued>>
    /\ UNCHANGED <<otps, now, pending>>

----------------------------------------------------------------------------
\* POST /users/reset-password: UsersController.resetPassword, UsersService.resetPassword

\* findOne({ where: { email } }) with the email of the decoded payload; a
\* payload without an email leaves the condition out, and any row matches
FoundUsersDecoded(email) ==
    IF email = NoEmail THEN (IF users = {} THEN {NoUser} ELSE users) ELSE FoundUsers(email)

\* resetPassword without the comparison against the stored token
resetPasswordOutcome_NoStoredTokenCheck(token, user) ==
    IF ~jwtVerify(token, now) THEN "jwt error"
    ELSE IF user = NoUser THEN "User not found"
    ELSE IF user.resetPasswordExpires < now THEN "Reset token has expired"
    ELSE "ok"

\* resetPassword without either expiry: the signature and the stored token decide
resetPasswordOutcome_NoExpiryChecks(token, user) ==
    IF token.sig # JWT_SECRET THEN "jwt error"
    ELSE IF user = NoUser THEN "User not found"
    ELSE IF user.resetPasswordToken # token THEN "Invalid reset token"
    ELSE "ok"

\* the outcome of UsersService.resetPassword on the row findOne returned
resetPasswordOutcome(token, user) ==
    IF ~jwtVerify(token, now) THEN "jwt error"
    ELSE IF user = NoUser THEN "User not found"
    ELSE IF user.resetPasswordToken # token THEN "Invalid reset token"
    ELSE IF user.resetPasswordExpires < now THEN "Reset token has expired"
    ELSE "ok"

\* resetPassword that saves the row as it was
resetPasswordRow_KeepPassword(user, hashedPassword) == user

\* the row UsersService.resetPassword saves
resetPasswordRow(user, hashedPassword) == [user EXCEPT !.password = hashedPassword]

\* UsersController.resetPassword: the service's exceptions are caught into null
resetPasswordReply(outcome) ==
    IF outcome = "ok" THEN Reply("reset-password", 201, "Password successfully reset")
    ELSE Reply("reset-password", 400, "Invalid or expired token")

resetPassword(token, newPassword, salt) ==
    /\ \E user \in FoundUsersDecoded(token.email) :
         /\ res' = resetPasswordReply(resetPasswordOutcome(token, user))
         /\ users' = IF resetPasswordOutcome(token, user) = "ok"
                     THEN (users \ {user}) \cup
                            {resetPasswordRow(user, bcryptHash(newPassword, salt))}
                     ELSE users
    /\ UNCHANGED <<otps, now, issued, pending>>

----------------------------------------------------------------------------
Next ==
    \/ Tick
    \/ \E email \in OtpEmails, secret \in Secrets, mailOk \in BOOLEAN :
         requestOtp(email, secret, mailOk)
    \/ \E email \in OtpEmails, otp \in AllCodes : verifyOtpEndpoint(email, otp)
    \/ \E email \in Emails, password \in Passwords, otpToken \in TokenInputs, salt \in Salts :
         registerService(email, password, otpToken, salt)
    \/ \E email \in Emails, password \in Passwords, otpToken \in TokenInputs, salt \in Salts :
         registerEndpoint(email, password, otpToken, salt)
    \/ \E email \in Emails, password \in Passwords : login(email, password)
    \/ \E email \in Emails : forgotPassword(email)
    \/ \E token \in TokenInputs, newPassword \in Passwords, salt \in Salts :
         resetPassword(token, newPassword, salt)

Spec == Init /\ [][Next]_vars

----------------------------------------------------------------------------
\* AuthService.register as the event loop runs it: the awaits of
\* findOneByEmail and of bcrypt.hash / usersService.create let another
\* request run between the checks and the insert

\* the concurrent calls
Calls == 1..MaxCalls

\* register up to the verification of the otpToken: a call that passes both
\* checks goes on to hash and create, one that fails answers at once
registerBegin(call, email, password, otpToken) ==
    LET dto == [email |-> email, password |-> password, otpToken |-> otpToken]
        outcome == registerOutcome(dto)
    IN  /\ call \notin {c.call : c \in pending}
        /\ IF outcome = "ok"
           THEN /\ pending' = pending \cup {[call |-> call, email |-> email, password |-> password]}
                /\ res' = res
           ELSE /\ pending' = pending
                /\ res' = Reply("AuthService.register",
                                IF outcome = "Email already exists" THEN 409 ELSE 400, outcome)
        /\ UNCHANGED <<users, otps, now, issued>>

\* register from bcrypt.hash on: usersService.create saves the row, and the
\* call answers with it and a session token
registerCreate(c, salt) ==
    LET newUser == newUserRow(c.email, bcryptHash(c.password, salt))
    IN  /\ c \in pending
        /\ pending' = pending \ {c}
        /\ users' = users \cup {newUser}
        /\ res' = registerResult("AuthService.register", "", newUser)
        /\ UNCHANGED <<otps, now, issued>>

NextRace ==
    \/ \E email \in OtpEmails, secret \in Secrets, mailOk \in BOOLEAN :
         requestOtp(email, secret, mailOk)
    \/ \E email \in OtpEmails, otp \in AllCodes : verifyOtpEndpoint(email, otp)
    \/ \E call \in Calls, email \in Emails, password \in Passwords, otpToken \in TokenInputs :
         registerBegin(call, email, password, otpToken)
    \/ \E c \in pending, salt \in Salts : registerCreate(c, salt)

SpecRace == Init /\ [][NextRace]_vars

----------------------------------------------------------------------------
\* The handlers called with addresses that differ in letter case only

CaseEmails == {"a@x.com", "A@X.COM"}

NextCase ==
    \/ \E email \in OtpEmails, secret \in Secrets, mailOk \in BOOLEAN :
         requestOtp(email, secret, mailOk)
    \/ \E email \in OtpEmails, otp \in AllCodes : verifyOtpEndpoint(email, otp)
    \/ \E email \in CaseEmails, password \in Passwords, otpToken \in TokenInputs, salt \in Salts :
         registerService(email, password, otpToken, salt)
    \/ \E email \in CaseEmails, password \in Passwords : login(email, password)
    \/ \E email \in CaseEmails : forgotPassword(email)

SpecCase == Init /\ [][NextCase]_vars

----------------------------------------------------------------------------
\* The OTP engine on its own: OtpService.getOtp at one instant,
\* OtpService.verifyOtp at another

\* the instants the engine is exercised at
EngineTimes == {k * EngineTick : k \in 0..(MaxEngineNow \div EngineTick)}

\* a challenge as createOtp stores it at instant t, and any clock reading
InitEngine ==
    /\ users = {}
    /\ issued = {}
    /\ res = NoRes
    /\ pending = {}
    /\ now \in EngineTimes
    /\ \E secret \in Secrets, t \in EngineTimes :
         otps = {[id |-> 1, email |-> "a@x.com", token |-> getOtp(secret, t),
                  secret |-> secret, expires |-> t + HourSeconds]}

engineTick ==
    /\ now < MaxEngineNow
    /\ now' = now + EngineTick
    /\ UNCHANGED <<users, otps, issued, res, pending>>

\* OtpService.verifyOtp(secret, otp) on the stored secret and code
engineVerify ==
    /\ \E o \in otps :
         res' = Reply("OtpService.verifyOtp", 0,
                      IF verifyOtp(o.secret, o.token, now) THEN "true" ELSE "false")
    /\ UNCHANGED <<users, otps, now, issued, pending>>

NextEngine == engineTick \/ engineVerify

SpecEngine == InitEngine /\ [][NextEngine]_vars

----------------------------------------------------------------------------
\* OtpService.createOtp as the event loop runs it: the await of
\* otpRepository.findOne lets another request run between the read and the save

\* otpRepository.save: an entity that carries an id updates the row of that
\* id, an entity without one is inserted under a generated id
otpRepositorySave(otpData) ==
    IF otpData.id # 0
    THEN {o \in otps : o.id # otpData.id} \cup {otpData}
    ELSE otps \cup {[otpData EXCEPT !.id = nextOtpId]}

\* createOtp up to and including findOne: the call holds the entity it is
\* going to save, the row it read with the new values or a new entity
createOtpBegin(call, email, secret) ==
    /\ call \notin {c.call : c \in pending}
    /\ \E found \in FoundOtps(email) :
         pending' = pending \cup
           {[call |-> call,
             otpData |-> [id |-> found.id, email |-> email, token |-> getOtp(secret, now),
                          secret |-> secret, expires |-> now + HourSeconds]]}
    /\ UNCHANGED <<users, otps, now, issued, res>>

\* createOtp from otpRepository.save on, and the answer of the controller
createOtpFinish(c, mailOk) ==
    /\ c \in pending
    /\ pending' = pending \ {c}
    /\ otps' = otpRepositorySave(c.otpData)
    /\ res' = requestOtpReply(mailOk)
    /\ UNCHANGED <<users, now, issued>>

NextOtpRace ==
    \/ \E call \in Calls, email \in OtpEmails, secret \in Secrets :
         createOtpBegin(call, email, secret)
    \/ \E c \in pending, mailOk \in BOOLEAN : createOtpFinish(c, mailOk)
    \/ \E email \in OtpEmails, otp \in AllCodes : verifyOtpEndpoint(email, otp)

SpecOtpRace == Init /\ [][NextOtpRace]_vars

----------------------------------------------------------------------------
\* UsersService.resetPassword as the event loop runs it: the await of
\* findOneByEmail and the save let a forgot-password request run between the
\* load of the row and its save

\* usersRepository.save of a loaded entity: the row of its id gets the
\* values the entity carries
usersRepositorySave(user) == {u \in users : u.id # user.id} \cup {user}

\* resetPassword up to the assignment of the new hash: a call that passes the
\* checks holds the entity it is going to save, one that fails answers at once
resetPasswordBegin(call, token, newPassword, salt) ==
    /\ call \notin {c.call : c \in pending}
    /\ \E user \in FoundUsersDecoded(token.email) :
         IF resetPasswordOutcome(token, user) = "ok"
         THEN /\ pending' = pending \cup
                   {[call |-> call,
                     user |-> resetPasswordRow(user, bcryptHash(newPassword, salt))]}
              /\ res' = res
         ELSE /\ pending' = pending
              /\ res' = resetPasswordReply(resetPasswordOutcome(token, user))
    /\ UNCHANGED <<users, otps, now, issued>>

\* resetPassword from usersRepository.save on, and the answer of the controller
resetPasswordFinish(c) ==
    /\ c \in pending
    /\ pending' = pending \ {c}
    /\ users' = usersRepositorySave(c.user)
    /\ res' = resetPasswordReply("ok")
    /\ UNCHANGED <<otps, now, issued>>

NextResetRace ==
    \/ Tick
    \/ \E email \in OtpEmails, secret \in Secrets, mailOk \in BOOLEAN :
         requestOtp(email, secret, mailOk)
    \/ \E email \in OtpEmails, otp \in AllCodes : verifyOtpEndpoint(email, otp)
    \/ \E email \in OtpEmails, password \in Passwords, otpToken \in TokenInputs, salt \in Salts :
         registerService(email, password, otpToken, salt)
    \/ \E email \in OtpEmails : forgotPassword(email)
    \/ \E call \in Calls, token \in TokenInputs, newPassword \in Passwords, salt \in Salts :
         resetPasswordBegin(call, token, newPassword, salt)
    \/ \E c \in pending : resetPasswordFinish(c)

SpecResetRace == Init /\ [][NextResetRace]_vars

----------------------------------------------------------------------------
\* Who issued a token a caller presents

IssuedBy(token) ==
    {i.by : i \in {j \in issued : j.token = token}}
      \cup (IF token # NoToken /\ res.token = token THEN {res.op} ELSE {})

\* the proof tokens OtpService.verifyOtpForEmail issued for an email
OtpProofsFor(email) == {t \in TokenInputs : "otp-verify" \in IssuedBy(t) /\ t.email = email}

\* session tokens (login, register) and reset-proof tokens (forgot-password)
IsSessionOrResetToken(token) ==
    IssuedBy(token) \cap {"login", "register", "AuthService.register", "forgot-password"} # {}

----------------------------------------------------------------------------
\* C1: AuthService.register creates an Identity with email e only if the
\* otpToken it was given was issued by verifyOtpForEmail for that same e.
C1_ProofBoundToEmail ==
    [][\A e \in Emails, p \in Passwords, t \in TokenInputs, s \in Salts :
         (registerService(e, p, t, s) /\ users' # users) => t \in OtpProofsFor(e)]_vars

\* C2: through POST /auth/register, an unregistered email with a proof token
\* that verifyOtp issued for it and that has not expired is registered:
\* exactly one Identity with that email, and a session token in the answer.
C2_EndpointRegistrationSucceeds ==
    [][\A e \in Emails, p \in Passwords, t \in TokenInputs, s \in Salts :
         (/\ registerEndpoint(e, p, t, s)
          /\ findUsersByEmail(e) = {}
          /\ t \in OtpProofsFor(e)
          /\ jwtVerify(t, now))
         => /\ res'.status = 201
            /\ res'.token # NoToken
            /\ Cardinality({u \in users' : u.email = e}) = 1]_vars

\* C3: a session token or a reset-proof token presented to register as
\* otpToken is rejected and creates no Identity.
C3_PurposesNotInterchangeable ==
    [][\A e \in Emails, p \in Passwords, t \in TokenInputs, s \in Salts :
         (registerService(e, p, t, s) /\ IsSessionOrResetToken(t))
         => (users' = users /\ res'.status # 201)]_vars

\* C4: after a successful verifyOtp for e the challenge for e is discarded.
C4_ChallengeSingleUse ==
    (res.op = "otp-verify" /\ res.status = 201) => findOtpsByEmail(res.token.email) = {}

\* C5: a successful resetPassword leaves the Identity's resetToken and
\* resetTokenExpiry absent, so the token it consumed cannot be used again.
C5_ResetTokenSingleUse ==
    [][\A t \in TokenInputs, p \in Passwords, s \in Salts :
         (resetPassword(t, p, s) /\ res'.status = 201)
         => \A u \in users' :
              u.email = t.email =>
                (u.resetPasswordToken = NoToken /\ u.resetPasswordExpires = NullDate)]_vars

\* C6: the identity object in a successful answer of register or login does
\* not contain the password hash.
C6_PasswordHashNotReturned ==
    (res.op \in {"register", "AuthService.register", "login"} /\ res.status = 201)
    => res.user.password = NoHash

\* C7: forgot-password gives the same answer whether or not an Identity with
\* the requested email exists.
C7_ForgotPasswordIndistinguishable ==
    res.op = "forgot-password"
    => res = Reply("forgot-password", 201, "If email exists, reset token has been sent")

\* C8: resetPassword succeeds only with the token stored as resetToken on the
\* Identity the token is bound to; a validly signed, unexpired token that a
\* newer forgot-password superseded is refused and the password hash stays.
C8_ResetNeedsStoredToken ==
    [][res'.op = "reset-password" =>
       \A t \in TokenInputs, p \in Passwords, s \in Salts :
         resetPassword(t, p, s)
         => /\ res'.status = 201
                 => \E u \in users : u.email = t.email /\ u.resetPasswordToken = t
            /\ (\E u \in users : u.email = t.email /\ u.resetPasswordToken # t)
                 => (/\ res'.status = 400
                     /\ res'.message = "Invalid or expired token"
                     /\ users' = users)]_vars

\* a resetPassword was just refused while a caller holds a reset token that
\* is still signed and unexpired but is no longer the one stored on its Identity
C8_Witness ==
    /\ res.op = "reset-password"
    /\ res.status = 400
    /\ \E i \in issued :
         /\ i.by = "forgot-password"
         /\ jwtVerify(i.token, now)
         /\ \E u \in users :
              /\ u.email = i.token.email
              /\ u.resetPasswordToken # i.token
              /\ jwtVerify(u.resetPasswordToken, now)
              /\ now <= u.resetPasswordExpires

\* C9: verifyOtp answers "OTP not found" when no challenge is stored for the
\* email, "OTP has expired" when the challenge is past its expiry (whatever
\* the code), "Invalid OTP" when the challenge is unexpired and the code does
\* not verify; a failure carries no proof token and hands none out.
C9_VerifyOtpFailures ==
    [][res'.op = "otp-verify" =>
       \A e \in OtpEmails, c \in AllCodes :
         verifyOtpEndpoint(e, c)
         => /\ findOtpsByEmail(e) = {} => res'.message = "OTP not found"
            /\ \A o \in findOtpsByEmail(e) :
                 /\ now > o.expires => res'.message = "OTP has expired"
                 /\ (now <= o.expires /\ ~verifyOtp(o.secret, c, now))
                      => res'.message = "Invalid OTP"
            /\ res'.message \in {"OTP not found", "OTP has expired", "Invalid OTP"}
                 => (res'.status = 400 /\ res'.token = NoToken /\ issued' = issued)]_vars

\* verifyOtp has just answered "Invalid OTP" for an unexpired challenge
C9_Witness ==
    /\ res.op = "otp-verify"
    /\ res.message = "Invalid OTP"
    /\ res.token = NoToken
    /\ \E o \in otps : now <= o.expires

\* C10: requestOtp stores expiresAt = now + 1 hour, and verifyOtp after that
\* instant answers "OTP has expired" without a token, also for the code that
\* was mailed and that the engine's window of 3 steps still accepts.
C10_ExpiryAfterOneHour ==
    [][/\ res'.op = "otp-request" =>
            \A e \in OtpEmails, s \in Secrets, m \in BOOLEAN :
              requestOtp(e, s, m)
              => \A o \in otps' : o.email = e => o.expires = now + 3600
       /\ res'.op = "otp-verify" =>
            \A e \in OtpEmails :
              \A o \in findOtpsByEmail(e) :
                (verifyOtpEndpoint(e, o.token) /\ now > o.expires)
                => (/\ res'.message = "OTP has expired"
                    /\ res'.token = NoToken
                    /\ issued' = issued)]_vars

\* verifyOtp has just answered "OTP has expired" for a challenge issued more
\* than an hour ago whose mailed code the OTP engine still accepts
C10_Witness ==
    /\ res.op = "otp-verify"
    /\ res.message = "OTP has expired"
    /\ \E o \in otps :
         /\ now > o.expires
         /\ o.expires + 3 * 3600 >= now
         /\ verifyOtp(o.secret, o.token, now)

\* the instant a stored challenge was created: an hour before its expiry
createdAt(o) == o.expires - HourSeconds

\* C11: when requestOtp replaces a stored challenge (code C1) by one with a
\* fresh secret and another code C2, verifying C2 against the stored challenge
\* succeeds and verifying C1 answers "Invalid OTP"; and verifyOtp succeeds
\* only for a code the stored (latest) challenge of the email accepts.
C11_SupersededChallenge ==
    [][/\ res'.op = "otp-request" =>
            \A e \in OtpEmails, s \in Secrets, m \in BOOLEAN :
              requestOtp(e, s, m)
              => \A o1 \in findOtpsByEmail(e) :
                   \A o2 \in findOtpsByEmail(e)' :
                     (o1.secret # s /\ o1.token # o2.token)
                     => /\ verifyOtpForEmailOutcome(o2, o2.token)' = "ok"
                        /\ verifyOtpForEmailOutcome(o2, o1.token)' = "Invalid OTP"
       /\ res'.op = "otp-verify" =>
            \A e \in OtpEmails, c \in AllCodes :
              (verifyOtpEndpoint(e, c) /\ res'.status = 201)
              => \A o \in findOtpsByEmail(e) :
                   now <= o.expires /\ verifyOtp(o.secret, c, now)]_vars

\* verifyOtp has just succeeded against a challenge that replaced an earlier
\* one: a proof token was issued in an earlier OTP step than the one the
\* stored challenge was created in
C11_Witness ==
    /\ res.op = "otp-verify"
    /\ res.status = 201
    /\ \E o \in findOtpsByEmail(res.token.email) :
         /\ res.token.iat >= createdAt(o)
         /\ \E i \in issued :
              /\ i.by = "otp-verify"
              /\ i.token.email = o.email
              /\ totpCounter(i.token.iat) < totpCounter(createdAt(o))

\* C12: the Otp table holds at most one challenge per email; a requestOtp for
\* an email that has a challenge keeps the row and overwrites its secret,
\* token and expiry.
C12_OneChallengePerEmail ==
    [][/\ \A e \in Emails : Cardinality(findOtpsByEmail(e)') <= 1
       /\ res'.op = "otp-request" =>
            \A e \in OtpEmails, s \in Secrets, m \in BOOLEAN :
              requestOtp(e, s, m)
              => \A o \in findOtpsByEmail(e) :
                   otps' = (otps \ {o}) \cup
                             {[id |-> o.id, email |-> e, token |-> getOtp(s, now),
                               secret |-> s, expires |-> now + HourSeconds]}]_vars

\* requestOtp has just answered while a proof token shows that the email had
\* a challenge before this request, and one challenge is stored
C12_Witness ==
    /\ res.op = "otp-request"
    /\ \E o \in otps :
         /\ createdAt(o) = now
         /\ Cardinality(findOtpsByEmail(o.email)) = 1
         /\ \E i \in issued :
              i.by = "otp-verify" /\ i.token.email = o.email /\ i.token.iat < now

\* C13: login answers 404 "Email not found" when no Identity has the email
\* and 400 "Incorrect password" when the password does not match the stored
\* hash, both without a token; with the right password it answers 201 with
\* the identity and a session token that verifies.
C13_LoginOutcomes ==
    [][res'.op = "login" =>
       \A e \in Emails, p \in Passwords :
         login(e, p)
         => /\ issued' = issued
            /\ findUsersByEmail(e) = {}
                 => (/\ res'.status = 404
                     /\ res'.message = "Email not found"
                     /\ res'.token = NoToken)
            /\ \A u \in findUsersByEmail(e) :
                 IF bcryptCompare(p, u.password)
                 THEN /\ res'.status = 201
                      /\ res'.user.id = u.id
                      /\ res'.user.email = e
                      /\ res'.token # NoToken
                      /\ jwtVerify(res'.token, now)
                 ELSE /\ res'.status = 400
                      /\ res'.message = "Incorrect password"
                      /\ res'.token = NoToken]_vars

\* login has just refused a wrong password for a registered email
C13_Witness ==
    /\ res.op = "login"
    /\ res.status = 400
    /\ res.message = "Incorrect password"
    /\ res.token = NoToken
    /\ users # {}

\* C14: the session token of a successful login or register for email e has
\* username e and, as sub, the id of the stored Identity with email e; no
\* other Identity has that id.
C14_SessionSubject ==
    [][/\ (res'.op = "login" /\ res'.status = 201) =>
            \A e \in Emails, p \in Passwords :
              login(e, p)
              => /\ res'.token.username = e
                 /\ \E u \in users' : u.email = e /\ u.id = res'.token.sub
                 /\ \A u \in users' : u.id = res'.token.sub => u.email = e
       /\ (res'.op \in {"register", "AuthService.register"} /\ res'.status = 201) =>
            \A e \in Emails, p \in Passwords, t \in TokenInputs, s \in Salts :
              (registerService(e, p, t, s) \/ registerEndpoint(e, p, t, s))
              => /\ res'.token.username = e
                 /\ \E u \in users' : u.email = e /\ u.id = res'.token.sub
                 /\ \A u \in users' : u.id = res'.token.sub => u.email = e]_vars

\* a session token was just issued to the second of two Identities
C14_Witness ==
    /\ res.op \in {"login", "AuthService.register"}
    /\ res.status = 201
    /\ Cardinality(users) = 2
    /\ \E u \in users : u.id = res.token.sub /\ u.id # 1 /\ u.email = res.token.username

\* C15: register for an email that has an Identity answers 409 "Email
\* already exists", whatever the proof token, and leaves the User table as
\* it was: a step of register that is anything else is not a call for an
\* email that has an Identity.
C15_RegisterConflict ==
    [][res'.op \in {"register", "AuthService.register"} =>
         \/ /\ res'.status = 409
            /\ res'.message = "Email already exists"
            /\ res'.token = NoToken
            /\ users' = users
         \/ \A e \in {u.email : u \in users}, p \in Passwords, t \in TokenInputs, s \in Salts :
              ~(registerService(e, p, t, s) \/ registerEndpoint(e, p, t, s))]_vars

\* register has just answered Conflict while the only Identity is one whose
\* email the caller holds a proof token for that still verifies
C15_Witness ==
    /\ res.op = "AuthService.register"
    /\ res.status = 409
    /\ Cardinality(users) = 1
    /\ \E u \in users : \E t \in OtpProofsFor(u.email) : jwtVerify(t, now)

\* C16: forgotPassword for a registered email answers with the token it
\* stored on the Identity (expiry one hour later); resetPassword with the
\* stored token before its expiry succeeds, and afterwards the new password
\* validates for the email and every other password is refused.
C16_ResetHappyPath ==
    [][/\ res'.op = "forgot-password" =>
            \A e \in Emails :
              (forgotPassword(e) /\ findUsersByEmail(e) # {})
              => /\ res'.token # NoToken
                 /\ \A u \in findUsersByEmail(e)' :
                      /\ u.resetPasswordToken = res'.token
                      /\ u.resetPasswordExpires = now + HourSeconds
       /\ res'.op = "reset-password" =>
            \A t \in TokenInputs, p1 \in Passwords, s \in Salts :
              (/\ resetPassword(t, p1, s)
               /\ jwtVerify(t, now)
               /\ \E u \in findUsersByEmail(t.email) :
                    u.resetPasswordToken = t /\ now <= u.resetPasswordExpires)
              => /\ res'.status = 201
                 /\ \A u \in findUsersByEmail(t.email)' :
                      /\ validateUserOutcome(u, p1) = "ok"
                      /\ \A p0 \in Passwords \ {p1} :
                           validateUserOutcome(u, p0) = "Incorrect password"]_vars

\* resetPassword has just succeeded for an Identity that stores an unexpired
\* reset token the caller holds, and the Identity has the new password
C16_Witness ==
    /\ res.op = "reset-password"
    /\ res.status = 201
    /\ \E u \in users :
         /\ u.resetPasswordToken \in Held
         /\ jwtVerify(u.resetPasswordToken, now)
         /\ validateUserOutcome(u, "NewPass1!") = "ok"

\* C17: on every Identity resetPasswordToken and resetPasswordExpires are
\* both set or both null.
C17_ResetFieldsTogether ==
    \A u \in users : (u.resetPasswordToken = NoToken) <=> (u.resetPasswordExpires = NullDate)

\* forgotPassword has just stored a token and an expiry on one Identity while
\* another has neither
C17_Witness ==
    /\ res.op = "forgot-password"
    /\ \E u \in users : u.resetPasswordToken # NoToken /\ u.resetPasswordExpires # NullDate
    /\ \E u \in users : u.resetPasswordToken = NoToken /\ u.resetPasswordExpires = NullDate

\* C18: every Identity a successful register created has isVerified = true.
C18_RegisteredIsVerified ==
    \A u \in users : u.isVerified

\* C19: when the mailer fails, requestOtp does not answer with the
\* acknowledgement "OTP sent successfully" but with an error.
C19_MailerFailureReported ==
    [][res'.op = "otp-request" =>
       \A e \in OtpEmails, s \in Secrets :
         requestOtp(e, s, FALSE)
         => (res'.status = 400 /\ res'.message # "OTP sent successfully")]_vars

\* requestOtp has just reported a failure of the mailer; the challenge it
\* saved before sending is stored
C19_Witness ==
    /\ res.op = "otp-request"
    /\ res.status = 400
    /\ \E o \in otps : createdAt(o) = now

\* C20: at most one Identity exists for an email, also when register calls
\* for the same email interleave between their checks and their insert.
C20_EmailUniqueUnderRace ==
    \A e \in Emails : Cardinality(findUsersByEmail(e)) <= 1

\* the address with its letters in lower case
lowerCase(email) == IF email = "A@X.COM" THEN "a@x.com" ELSE email

\* C21: register with an email that differs only in letter case from the
\* email of an Identity answers Conflict and creates nothing.
C21_EmailCaseInsensitive ==
    [][res'.op = "AuthService.register" =>
       \A e \in CaseEmails, p \in Passwords, t \in TokenInputs, s \in Salts :
         (/\ registerService(e, p, t, s)
          /\ \E u \in users : lowerCase(u.email) = lowerCase(e))
         => (res'.status = 409 /\ users' = users)]_vars

C23_ResetTokenExpires ==
    [][res'.op = "reset-password" =>
       \A t \in TokenInputs, p \in Passwords, s \in Salts :
         resetPassword(t, p, s)
         => /\ ("forgot-password" \in IssuedBy(t) /\ now > t.iat + 60 * 60)
                 => /\ res'.status = 400
                    /\ res'.message = "Invalid or expired token"
                    /\ users' = users
            /\ res'.status = 201
                 => /\ now < t.exp
                    /\ \E u \in users :
                         u.resetPasswordToken = t /\ now <= u.resetPasswordExpires]_vars

\* resetPassword has just refused while an Identity stores a reset token the
\* caller holds that forgot-password issued more than an hour ago
C23_Witness ==
    /\ res.op = "reset-password"
    /\ res.status = 400
    /\ \E u \in users :
         /\ u.resetPasswordToken \in Held
         /\ now > u.resetPasswordToken.iat + 60 * 60
         /\ now > u.resetPasswordExpires

\* C24: resetPassword with a signed, unexpired token whose email has no
\* Identity answers NotFound, not the answer given for an invalid or expired
\* token.
C24_ResetUnknownEmailNotFound ==
    [][res'.op = "reset-password" =>
       \A t \in TokenInputs, p \in Passwords, s \in Salts :
         (/\ resetPassword(t, p, s)
          /\ jwtVerify(t, now)
          /\ t.email # NoEmail
          /\ findUsersByEmail(t.email) = {})
         => (res'.status = 404 /\ res'.message # "Invalid or expired token")]_vars

\* the distance in OTP steps between two instants
stepsApart(t, at) ==
    IF totpCounter(at) >= totpCounter(t) THEN totpCounter(at) - totpCounter(t)
    ELSE totpCounter(t) - totpCounter(at)

\* C25: with step 3600 and window 3, verifyOtp of the code getOtp made at t
\* is true at every instant whose step is within 3 steps of the step of t,
\* and false at every instant whose step is 4 or more steps away.
C25_EngineWindow ==
    [][engineVerify =>
       \A o \in otps :
         /\ stepsApart(createdAt(o), now) <= 3 => res'.message = "true"
         /\ stepsApart(createdAt(o), now) >= 4 => res'.message = "false"]_vars

\* the engine has just accepted a code made three steps earlier
C25_Witness ==
    /\ res.op = "OtpService.verifyOtp"
    /\ res.message = "true"
    /\ \E o \in otps : now = createdAt(o) + 3 * 3600

\* C26: requestOtp and verifyOtp leave the User table as it was, and a row
\* with a new id appears in the User table only in a step of register that
\* answers 201.
C26_OtpHandlersLeaveUsers ==
    [][users' # users =>
         /\ \A e \in OtpEmails, c \in AllCodes : ~verifyOtpEndpoint(e, c)
         /\ \A e \in OtpEmails, s \in Secrets, m \in BOOLEAN : ~requestOtp(e, s, m)
         /\ (\E u \in users' : \A v \in users : v.id # u.id)
              => (/\ res'.op \in {"register", "AuthService.register"}
                  /\ res'.status = 201
                  /\ \E e \in Emails, p \in Passwords, t \in TokenInputs, s \in Salts :
                       registerService(e, p, t, s) \/ registerEndpoint(e, p, t, s))]_vars

\* verifyOtp has just issued a proof token for an email that has a stored
\* challenge and still no Identity
C26_Witness ==
    /\ res.op = "otp-verify"
    /\ res.status = 201
    /\ findOtpsByEmail(res.token.email) # {}
    /\ findUsersByEmail(res.token.email) = {}

\* C27: after register(e, p, T) succeeded, validateUser accepts p for the
\* Identity of e and refuses every other password with "Incorrect password".
C27_PasswordRoundTrip ==
    [][(res'.op \in {"register", "AuthService.register"} /\ res'.status = 201) =>
       \A e \in Emails, p \in Passwords, t \in TokenInputs, s \in Salts :
         (registerService(e, p, t, s) \/ registerEndpoint(e, p, t, s))
         => /\ findUsersByEmail(e)' # {}
            /\ \A u \in findUsersByEmail(e)' :
                 /\ validateUserOutcome(u, p) = "ok"
                 /\ \A q \in Passwords \ {p} :
                      validateUserOutcome(u, q) = "Incorrect password"]_vars

\* login has just succeeded for an Identity that no reset has touched: the
\* password it accepted is the one given to register
C27_Witness ==
    /\ res.op = "login"
    /\ res.status = 201
    /\ \E u \in users :
         /\ u.id = res.user.id
         /\ u.resetPasswordToken = NoToken
         /\ \E q \in Passwords : validateUserOutcome(u, q) = "Incorrect password"

\* C28: register for an email that has an Identity, given a token that does
\* not verify, answers 400 "Invalid or expired OTP token" rather than Conflict.
C28_ProofCheckedBeforeConflict ==
    [][res'.op = "AuthService.register" =>
       \A e \in {u.email : u \in users}, p \in Passwords, t \in TokenInputs, s \in Salts :
         (registerService(e, p, t, s) /\ ~jwtVerify(t, now))
         => (res'.status = 400 /\ res'.message = "Invalid or expired OTP token")]_vars

\* C29: once the interleaved requestOtp calls for an email have completed,
\* one challenge is stored for that email.
C29_LatestWriteWins ==
    pending = {} => \A e \in OtpEmails : Cardinality(findOtpsByEmail(e)) <= 1

\* C30: a resetPassword attempted on an Identity whose resetPasswordExpires
\* has passed fails and leaves that Identity without resetPasswordToken and
\* resetPasswordExpires.
C30_ExpiredResetCleared ==
    [][res'.op = "reset-password" =>
       \A t \in TokenInputs, p \in Passwords, s \in Salts :
         (/\ resetPassword(t, p, s)
          /\ \E u \in findUsersByEmail(t.email) :
               u.resetPasswordExpires # NullDate /\ u.resetPasswordExpires < now)
         => /\ res'.status = 400
            /\ \A u \in findUsersByEmail(t.email)' :
                 u.resetPasswordToken = NoToken /\ u.resetPasswordExpires = NullDate]_vars

\* C31: every Identity keeps its id and its email in every step, and its
\* password changes only in a resetPassword that answers 201 for a token
\* bound to its email.
C31_IdentityFrame ==
    [][users' # users =>
       \A u \in users :
         \E v \in users' :
           /\ v.id = u.id
           /\ v.email = u.email
           /\ v.password # u.password
                => /\ res'.op = "reset-password"
                   /\ res'.status = 201
                   /\ \E t \in TokenInputs, p \in Passwords, s \in Salts :
                        resetPassword(t, p, s) /\ t.email = u.email]_vars

\* forgotPassword has just stored a token on an Identity whose password is
\* still a hash register or resetPassword saved
C31_Witness ==
    /\ res.op = "forgot-password"
    /\ res.token # NoToken
    /\ \E u \in users :
         /\ u.resetPasswordToken = res.token
         /\ \E p \in Passwords : bcryptCompare(p, u.password)

\* C32: a login, verifyOtp, register or resetPassword that fails, and a
\* forgotPassword for an unregistered email, leave the User table and the Otp
\* table as they were.
C32_FailuresChangeNothing ==
    [][/\ (/\ res'.op \in {"login", "otp-verify", "register", "AuthService.register",
                            "reset-password"}
           /\ res'.status # 201)
            => (users' = users /\ otps' = otps)
       /\ (res'.op = "forgot-password" /\ res'.token = NoToken)
            => (users' = users /\ otps' = otps)]_vars

\* register has just refused a token while an Identity and a challenge are stored
C32_Witness ==
    /\ res.op = "AuthService.register"
    /\ res.status = 400
    /\ users # {}
    /\ otps # {}

\* C33: a requestOtp during which the mailer fails leaves the Otp table as
\* it was.
C33_MailFailureLeavesChallenge ==
    [][res'.op = "otp-request" =>
       \A e \in OtpEmails, s \in Secrets :
         requestOtp(e, s, FALSE) => otps' = otps]_vars

\* C34: once the interleaved calls have completed, the reset token stored on
\* an Identity is the newest one forgot-password issued for its email; a
\* resetPassword that loaded the row earlier has not written an older one back.
C34_NoLostResetToken ==
    pending = {} =>
      \A u \in users :
        \A i \in issued :
          (i.by = "forgot-password" /\ i.token.email = u.email)
          => u.resetPasswordToken.iat >= i.token.iat

====
